---- MODULE Spec2Model ----
(***************************************************************************)
(* coderouter (cr): configuration resolution, credential lookup and the    *)
(* run / auth / setup commands, modelled from src/config.ts, src/cli.ts,   *)
(* src/runner.ts, src/setup.ts and src/presets.ts.                         *)
(*                                                                         *)
(* Strings that the code splits, joins or prefix-matches (target ids,      *)
(* glob patterns, descriptions) are sequences of atoms: "." and "*" are    *)
(* atoms of their own, every other atom is a run of ordinary characters.   *)
(* Environment-variable names and values are plain strings; "" is the      *)
(* empty (falsy) value.  An optional field is None or Some(value).         *)
(***************************************************************************)
EXTENDS Integers, Sequences, FiniteSets, TLC

VARIABLES
    file,       \* content of ~/.config/coderouter/config.json
    penv,       \* process.env of the cr process (the caller's ambient environment)
    pc,         \* position of the cr process
    argv,       \* process.argv.slice(2)
    resolved,   \* result of resolveTarget (None = null)
    missing,    \* result of checkRequiredEnvVars
    child,      \* None, or Some([command, args, env]) once spawn() was called
    exitCode,   \* None, or Some(code) once process.exit ran / main returned
    authVars,   \* runAuth: the requiredEnvVars being prompted for
    authIdx,    \* runAuth: index of the next prompt
    wizard,     \* setupClaude: [provider, env, idx] collected so far
    cancelled,  \* TRUE once an interactive prompt was cancelled
    writes,     \* number of writeFile calls on the config file
    file0,      \* content of the config file when the command started
    xdgDirs,    \* the opencode config directories that exist
    ret,        \* result of the last direct call of an exported function
    inst,       \* other tool instances saving to the same file: their loaded
                \* documents, and the log of loads and saves
    childExit   \* how the spawned process ended: its exit code, a signal,
                \* or a failure to start

vars == <<file, penv, pc, argv, resolved, missing, child, exitCode,
          authVars, authIdx, wizard, cancelled, writes, file0, xdgDirs, ret,
          inst, childExit>>

----------------------------------------------------------------------------
(* Optional values and JavaScript truthiness *)

None == <<>>
Some(x) == <<x>>
IsSome(m) == m # None
Get(m) == m[1]

\* m || d for an optional string-valued field of atoms ("" and undefined are falsy)
OrElseStr(m, d) == IF IsSome(m) /\ Get(m) # <<>> THEN Get(m) ELSE d
\* m || d for an optional array or object (every array or object is truthy)
OrElseObj(m, d) == IF IsSome(m) THEN Get(m) ELSE d
\* m || d where d is itself optional
OrElseOpt(m, d) == IF IsSome(m) THEN m ELSE d

EmptyMap == [k \in {} |-> ""]
\* { ...a, ...b }
Spread(a, b) == b @@ a
\* !!m[k] for a mapping of strings
Truthy(m, k) == k \in DOMAIN m /\ m[k] # ""

----------------------------------------------------------------------------
(* String primitives *)

Dot == "."
Star == "*"
Str(a) == <<a>>

startsWith(s, p) == Len(p) <= Len(s) /\ SubSeq(s, 1, Len(p)) = p
endsWith(s, a) == Len(s) > 0 /\ s[Len(s)] = a

\* position of the first Dot in s, 0 if none
RECURSIVE FirstDot(_, _)
FirstDot(s, i) ==
    IF i > Len(s) THEN 0
    ELSE IF s[i] = Dot THEN i ELSE FirstDot(s, i + 1)

\* s.split(".")
RECURSIVE split(_)
split(s) ==
    IF FirstDot(s, 1) = 0 THEN <<s>>
    ELSE <<SubSeq(s, 1, FirstDot(s, 1) - 1)>>
         \o split(SubSeq(s, FirstDot(s, 1) + 1, Len(s)))

\* parts.join(".")
RECURSIVE join(_)
join(parts) ==
    IF Len(parts) = 0 THEN <<>>
    ELSE IF Len(parts) = 1 THEN parts[1]
    ELSE parts[1] \o <<Dot>> \o join(Tail(parts))

\* `${scaffold}.${variantName}`
FullName(scaffold, variantName) == scaffold \o <<Dot>> \o variantName

----------------------------------------------------------------------------
(* presets.ts: the compiled-in preset table *)

claude == Str("claude")
opencode == Str("opencode")
codex == Str("codex")
gemini == Str("gemini")

\* a BuiltinVariant; defaultArgs, xdgConfigSubdir and requiredEnvVars are optional
Preset(name, description, env, xdg, required) ==
    [name |-> Str(name), description |-> Str(description), env |-> env,
     defaultArgs |-> None, xdgConfigSubdir |-> xdg, requiredEnvVars |-> required]

builtinVariants ==
    (claude :>
        (  Str("aws") :> Preset("aws", "AWS Bedrock with Opus",
               [CLAUDE_CODE_USE_BEDROCK |-> "1",
                AWS_REGION |-> "us-west-1",
                ANTHROPIC_MODEL |-> "global.anthropic.claude-opus-4-5-20251101-v1:0",
                ANTHROPIC_SMALL_FAST_MODEL |-> "us.anthropic.claude-haiku-4-5-20251001-v1:0"],
               None, None)
        @@ Str("vertex") :> Preset("vertex", "Google Cloud Vertex AI (Opus)",
               [CLAUDE_CODE_USE_VERTEX |-> "1",
                CLOUD_ML_REGION |-> "global",
                ANTHROPIC_MODEL |-> "claude-opus-4-5@20251101",
                ANTHROPIC_SMALL_FAST_MODEL |-> "claude-haiku-4-5@20251001"],
               None, Some(<<"ANTHROPIC_VERTEX_PROJECT_ID">>))
        @@ Str("glm") :> Preset("glm", "Z.AI GLM models (GLM-4.7)",
               [ANTHROPIC_BASE_URL |-> "https://api.z.ai/api/anthropic",
                ANTHROPIC_DEFAULT_OPUS_MODEL |-> "glm-4.7",
                ANTHROPIC_DEFAULT_SONNET_MODEL |-> "glm-4.7",
                ANTHROPIC_DEFAULT_HAIKU_MODEL |-> "glm-4.5-air"],
               None, Some(<<"ANTHROPIC_AUTH_TOKEN">>))
        @@ Str("minimax") :> Preset("minimax", "MiniMax M2.1",
               [ANTHROPIC_BASE_URL |-> "https://api.minimax.io/anthropic",
                ANTHROPIC_MODEL |-> "MiniMax-M2.1",
                ANTHROPIC_SMALL_FAST_MODEL |-> "MiniMax-M2.1",
                CLAUDE_CODE_DISABLE_NONESSENTIAL_TRAFFIC |-> "1",
                API_TIMEOUT_MS |-> "3000000"],
               None, Some(<<"ANTHROPIC_AUTH_TOKEN">>))
        @@ Str("openrouter") :> Preset("openrouter", "OpenRouter API",
               [ANTHROPIC_BASE_URL |-> "https://openrouter.ai/api/v1"],
               None, Some(<<"ANTHROPIC_API_KEY">>))
        @@ Str("azure") :> Preset("azure", "Microsoft Azure Foundry",
               [CLAUDE_CODE_USE_FOUNDRY |-> "1"],
               None, Some(<<"ANTHROPIC_FOUNDRY_RESOURCE">>))
        @@ Str("kimi") :> Preset("kimi", "Moonshot Kimi K2",
               [ANTHROPIC_BASE_URL |-> "https://api.moonshot.ai/anthropic",
                ANTHROPIC_MODEL |-> "kimi-k2-thinking-turbo",
                ANTHROPIC_DEFAULT_OPUS_MODEL |-> "kimi-k2-thinking-turbo",
                ANTHROPIC_DEFAULT_SONNET_MODEL |-> "kimi-k2-thinking-turbo",
                ANTHROPIC_DEFAULT_HAIKU_MODEL |-> "kimi-k2-thinking-turbo",
                CLAUDE_CODE_SUBAGENT_MODEL |-> "kimi-k2-thinking-turbo"],
               None, Some(<<"ANTHROPIC_AUTH_TOKEN">>))))
    @@ (opencode :>
        (  Str("omoc") :> Preset("omoc", "oh-my-opencode", EmptyMap,
               Some("opencode-omoc"), None)))
    @@ (codex :> EmptyMap)
    @@ (gemini :>
        (  Str("pro") :> Preset("pro", "Gemini Pro model",
               [GEMINI_MODEL |-> "gemini-2.5-pro"], None, None)
        @@ Str("flash") :> Preset("flash", "Gemini Flash model",
               [GEMINI_MODEL |-> "gemini-2.5-flash"], None, None)))

SCAFFOLDS == <<claude, opencode, codex, gemini>>

isScaffold(s) == \E i \in 1..Len(SCAFFOLDS) : SCAFFOLDS[i] = s

----------------------------------------------------------------------------
(* config.ts: the persisted configuration document *)

\* A Config read from JSON.  variants maps a key to an entry; an entry of the
\* current shape is a UserVariant (shape "flat"), an entry of the legacy shape
\* maps variant names to preset-shaped objects (shape "nested", members in
\* document order).  auth and secrets are sequences of [key, value] in
\* document order (Object.entries iterates in insertion order).
EmptyConfig == [variants |-> None, auth |-> None, secrets |-> None]

UserVariant(ext, description, env, defaultArgs, required) ==
    [shape |-> "flat", extends |-> ext, description |-> description, env |-> env,
     defaultArgs |-> defaultArgs, requiredEnvVars |-> required]

\* the file: absent, unparseable, or a JSON document
AbsentFile == [kind |-> "absent", doc |-> EmptyConfig]
MalformedFile == [kind |-> "malformed", doc |-> EmptyConfig]
JsonFile(doc) == [kind |-> "json", doc |-> doc]

\* index of key k in a sequence of [key, value] entries, 0 if absent
RECURSIVE IndexOf(_, _, _)
IndexOf(entries, k, i) ==
    IF i > Len(entries) THEN 0
    ELSE IF entries[i].key = k THEN i ELSE IndexOf(entries, k, i + 1)

\* obj[k] = v on a sequence of entries: in place when k exists, appended otherwise
SetAt(entries, i, k, v) ==
    IF i = 0 THEN Append(entries, [key |-> k, value |-> v])
    ELSE [entries EXCEPT ![i] = [key |-> k, value |-> v]]
SetEntry(entries, k, v) == SetAt(entries, IndexOf(entries, k, 1), k, v)

\* obj[k] on a sequence of entries
GetAt(entries, i) == IF i = 0 THEN None ELSE Some(entries[i].value)
GetEntry(entries, k) == GetAt(entries, IndexOf(entries, k, 1))

\* the object literal the migration builds for one legacy member: the four
\* properties are own properties of it, undefined (None) when the member lacks
\* them
Flattened(description, env, defaultArgs, required) ==
    [shape |-> "flattened", extends |-> None, description |-> description,
     env |-> env, defaultArgs |-> defaultArgs, requiredEnvVars |-> required]

\* a legacy entry: family -> { variantName -> preset-shaped object }
NestedVariants(members) == [shape |-> "nested", members |-> members]
LegacyVariant(name, description, env, defaultArgs, required) ==
    [name |-> name, description |-> description, env |-> env,
     defaultArgs |-> defaultArgs, requiredEnvVars |-> required]

\* the property names of a UserVariant object that are present, in document order
FlatFields(v) ==
    SelectSeq(<<"extends", "description", "env", "defaultArgs", "requiredEnvVars">>,
              LAMBDA f : IsSome(v[f]))

\* firstValue && typeof firstValue === "object" && "name" in firstValue
LooksLegacy(entry) ==
    IF entry.shape = "nested"
    THEN Len(entry.members) > 0 /\ IsSome(entry.members[1].value.name)
    ELSE /\ entry.shape = "flat"
         /\ Len(FlatFields(entry)) > 0
         /\ FlatFields(entry)[1] = "env"
         /\ "name" \in DOMAIN Get(entry.env)

\* Object.entries(variants) of one entry, each member reduced to the four
\* properties the migration copies.  A property holding a string or an array
\* has none of the four.
MembersOf(entry) ==
    IF entry.shape = "nested"
    THEN [i \in 1..Len(entry.members) |->
            [key |-> entry.members[i].key,
             value |-> Flattened(entry.members[i].value.description,
                                 entry.members[i].value.env,
                                 entry.members[i].value.defaultArgs,
                                 entry.members[i].value.requiredEnvVars)]]
    ELSE [i \in 1..Len(FlatFields(entry)) |->
            [key |-> Str(FlatFields(entry)[i]),
             value |-> Flattened(None, None, None, None)]]

\* newVariants[`${scaffold}.${name}`] = {...} for every member, in order
RECURSIVE FlattenInto(_, _, _, _)
FlattenInto(newVariants, scaffold, members, i) ==
    IF i > Len(members) THEN newVariants
    ELSE FlattenInto(SetEntry(newVariants, FullName(scaffold, members[i].key),
                              members[i].value),
                     scaffold, members, i + 1)

\* the loop over Object.entries(oldVariants)
RECURSIVE MigrateVariants(_, _, _)
MigrateVariants(newVariants, oldVariants, i) ==
    IF i > Len(oldVariants) THEN newVariants
    ELSE MigrateVariants(
             IF LooksLegacy(oldVariants[i].value)
             THEN FlattenInto(newVariants, oldVariants[i].key,
                              MembersOf(oldVariants[i].value), 1)
             ELSE newVariants,
             oldVariants, i + 1)

Colon == ":"

\* position of the first Colon in s, 0 if none
RECURSIVE FirstColon(_, _)
FirstColon(s, i) ==
    IF i > Len(s) THEN 0
    ELSE IF s[i] = Colon THEN i ELSE FirstColon(s, i + 1)

\* an environment-variable name written as atoms, as the string it denotes
EnvName(s) ==
    IF Len(s) = 1 THEN s[1]
    ELSE IF s = <<"A", Colon, "B">> THEN "A:B"
    ELSE "?"

\* auth[authKey][envVar] = value, creating the record at authKey when absent
SetSecret(auth, authKey, envVar, value) ==
    SetEntry(auth, authKey,
             (envVar :> value) @@ OrElseObj(GetEntry(auth, authKey), EmptyMap))

\* one legacy secret, key.match(/^([^:]+):(.+)$/) with the first colon at c
MigrateSecret(auth, key, value, c) ==
    IF c > 1 /\ c < Len(key)
    THEN SetSecret(auth, SubSeq(key, 1, c - 1) \o <<Star>>,
                   EnvName(SubSeq(key, c + 1, Len(key))), value)
    ELSE auth

\* the loop over Object.entries(config.secrets)
RECURSIVE MigrateSecrets(_, _, _)
MigrateSecrets(auth, secrets, i) ==
    IF i > Len(secrets) THEN auth
    ELSE MigrateSecrets(MigrateSecret(auth, secrets[i].key, secrets[i].value,
                                      FirstColon(secrets[i].key, 1)),
                        secrets, i + 1)

\* a migration of the secrets that starts from an empty auth mapping, against
\* which the keeping of the stored credentials is tested
migrateSecrets_dropsAuth(config) ==
    IF IsSome(config.secrets)
    THEN [config EXCEPT
            !.auth = Some(MigrateSecrets(<<>>, Get(config.secrets), 1)),
            !.secrets = None]
    ELSE config

\* migrateConfig, first block: the legacy secrets
migrateSecrets(config) ==
    IF IsSome(config.secrets)
    THEN [config EXCEPT
            !.auth = Some(MigrateSecrets(OrElseObj(config.auth, <<>>),
                                         Get(config.secrets), 1)),
            !.secrets = None]
    ELSE config

\* if (Object.keys(newVariants).length > 0) config.variants = newVariants
ReplaceVariants(config, newVariants) ==
    IF Len(newVariants) > 0
    THEN [config EXCEPT !.variants = Some(newVariants)]
    ELSE config

\* migrateConfig, second block: the legacy nested variants
migrateVariants(config) ==
    IF IsSome(config.variants)
    THEN ReplaceVariants(config, MigrateVariants(<<>>, Get(config.variants), 1))
    ELSE config

migrateConfig(config) == migrateVariants(migrateSecrets(config))

\* a load that takes whatever it can read of a file that fails to parse,
\* against which the degradation to the empty document is tested
loadConfig_lenient(f) ==
    IF f.kind = "absent" THEN EmptyConfig ELSE migrateConfig(f.doc)

\* loadConfig, as a function of the file's content
loadConfig(f) ==
    IF f.kind = "json" THEN migrateConfig(f.doc) ELSE EmptyConfig

\* JSON.stringify on one variants value: properties that are undefined are
\* left out, so a flattened object is written as the properties it defines
dropUndefined(value) ==
    IF value.shape = "flattened" THEN [value EXCEPT !.shape = "flat"] ELSE value

\* JSON.stringify(config, null, 2), as the document a later JSON.parse reads
stringify(config) ==
    IF IsSome(config.variants)
    THEN [config EXCEPT
            !.variants = Some([i \in 1..Len(Get(config.variants)) |->
                [key |-> Get(config.variants)[i].key,
                 value |-> dropUndefined(Get(config.variants)[i].value)]])]
    ELSE config

\* a save that keeps the auth mapping found in the file when the document
\* being written has none, against which the overwriting of the whole
\* document is tested
saveConfig_keepsStoredAuth(config) ==
    JsonFile(stringify([config EXCEPT
        !.auth = IF file.kind = "json" /\ IsSome(file.doc.auth) /\ ~IsSome(config.auth)
                 THEN file.doc.auth ELSE @]))

\* saveConfig: the file written by writeFile(CONFIG_FILE, JSON.stringify(config))
saveConfig(config) == JsonFile(stringify(config))

----------------------------------------------------------------------------
(* config.ts: credential lookup *)

\* a match in which a pattern ending in the wildcard matches every target,
\* against which the miss of getAuth is tested
matchesGlob_anyStar(target, pattern) ==
    IF endsWith(pattern, Star) THEN TRUE ELSE target = pattern

\* matchesGlob(target, pattern): prefix match when the pattern ends in "*"
matchesGlob(target, pattern) ==
    IF endsWith(pattern, Star)
    THEN startsWith(target, SubSeq(pattern, 1, Len(pattern) - 1))
    ELSE target = pattern

\* an inner loop that keeps the last stored pattern that matches instead of
\* returning at the first, against which the first-match order is tested
FirstMatch_lastMatch(auth, prefix, target, j) ==
    IF \E k \in j..Len(auth) :
           matchesGlob(prefix, auth[k].key) \/ matchesGlob(target, auth[k].key)
    THEN CHOOSE k \in j..Len(auth) :
           /\ matchesGlob(prefix, auth[k].key) \/ matchesGlob(target, auth[k].key)
           /\ \A m \in (k + 1)..Len(auth) :
                  ~(matchesGlob(prefix, auth[m].key) \/ matchesGlob(target, auth[m].key))
    ELSE 0

\* the inner loop of getAuth: index of the first stored pattern that matches
\* the prefix or the full target, 0 if none
RECURSIVE FirstMatch(_, _, _, _)
FirstMatch(auth, prefix, target, j) ==
    IF j > Len(auth) THEN 0
    ELSE IF matchesGlob(prefix, auth[j].key) \/ matchesGlob(target, auth[j].key)
         THEN j
         ELSE FirstMatch(auth, prefix, target, j + 1)

\* the outer loop of getAuth: for (let i = parts.length; i >= 1; i--)
RECURSIVE AuthLoop(_, _, _, _)
AuthLoop(auth, parts, target, i) ==
    IF i < 1 THEN EmptyMap
    ELSE IF FirstMatch(auth, join(SubSeq(parts, 1, i)), target, 1) > 0
         THEN auth[FirstMatch(auth, join(SubSeq(parts, 1, i)), target, 1)].value
         ELSE AuthLoop(auth, parts, target, i - 1)

\* getAuth on the loaded config
getAuthIn(config, target) ==
    IF ~IsSome(config.auth) THEN EmptyMap
    ELSE AuthLoop(Get(config.auth), split(target), target, Len(split(target)))

\* getAuth(target), reading the file f
getAuth(f, target) == getAuthIn(loadConfig(f), target)

\* saveAuth on the loaded config: the config it hands to saveConfig
saveAuthIn(config, target, envVar, value) ==
    [config EXCEPT
        !.auth = Some(SetSecret(OrElseObj(config.auth, <<>>), target \o <<Star>>,
                                envVar, value))]

\* saveAuth(target, envVar, value): the file it writes, having read f
saveAuth(f, target, envVar, value) ==
    saveConfig(saveAuthIn(loadConfig(f), target, envVar, value))

----------------------------------------------------------------------------
(* config.ts: variant resolution *)

\* builtinVariants and each of its families are object literals, so a
\* property read on them also finds what they inherit from Object.prototype:
\* constructor, toString and hasOwnProperty are functions. A function has a
\* name and none of the other properties of a BuiltinVariant (written here as
\* the empty text, the empty env and the absent optionals).
ObjectPrototype ==
    (Str("constructor") :> "Object" @@ Str("toString") :> "toString"
     @@ Str("hasOwnProperty") :> "hasOwnProperty")
Inherited(member) ==
    [name |-> Str(ObjectPrototype[member]), description |-> <<>>, env |-> EmptyMap,
     defaultArgs |-> None, xdgConfigSubdir |-> None, requiredEnvVars |-> None]

\* getBuiltinVariant: builtinVariants[scaffold]?.[variantName], undefined as None
getBuiltinVariant(scaffold, variantName) ==
    IF scaffold \in DOMAIN builtinVariants
    THEN IF variantName \in DOMAIN builtinVariants[scaffold]
         THEN Some(builtinVariants[scaffold][variantName])
         ELSE IF variantName \in DOMAIN ObjectPrototype
              THEN Some(Inherited(variantName))
              ELSE None
    ELSE None

\* the properties getVariant reads from a stored entry; an object of the
\* legacy nested shape has none of them
AsOverride(entry) ==
    IF entry.shape \in {"flat", "flattened"} THEN entry
    ELSE UserVariant(None, None, None, None, None)

\* a merge in which the preset's entries win over the override's: the reverse
\* overlay order, against which the precedence property is tested
mergeVariant_presetWins(variantName, userVariant, baseVariant) ==
    [name |-> variantName,
     description |-> OrElseStr(userVariant.description, baseVariant.description),
     env |-> Spread(OrElseObj(userVariant.env, EmptyMap), baseVariant.env),
     defaultArgs |-> OrElseOpt(userVariant.defaultArgs, baseVariant.defaultArgs),
     xdgConfigSubdir |-> None,
     requiredEnvVars |-> OrElseOpt(userVariant.requiredEnvVars,
                                   baseVariant.requiredEnvVars)]

\* the object returned when the override extends an existing preset
mergeVariant(variantName, userVariant, baseVariant) ==
    [name |-> variantName,
     description |-> OrElseStr(userVariant.description, baseVariant.description),
     env |-> Spread(baseVariant.env, OrElseObj(userVariant.env, EmptyMap)),
     defaultArgs |-> OrElseOpt(userVariant.defaultArgs, baseVariant.defaultArgs),
     xdgConfigSubdir |-> None,
     requiredEnvVars |-> OrElseOpt(userVariant.requiredEnvVars,
                                   baseVariant.requiredEnvVars)]

\* a standalone variant that still falls back to the preset stored under its
\* own identifier, against which the isolation property is tested
standaloneVariant_inheritsPreset(fullName, variantName, userVariant) ==
    [name |-> variantName,
     description |-> OrElseStr(userVariant.description, fullName),
     env |-> Spread(OrElseObj(getBuiltinVariant(split(fullName)[1],
                                                join(Tail(split(fullName)))),
                              [env |-> EmptyMap]).env,
                    OrElseObj(userVariant.env, EmptyMap)),
     defaultArgs |-> userVariant.defaultArgs,
     xdgConfigSubdir |-> None,
     requiredEnvVars |-> userVariant.requiredEnvVars]

\* the object returned for a user variant without (resolvable) extends
standaloneVariant(fullName, variantName, userVariant) ==
    [name |-> variantName,
     description |-> OrElseStr(userVariant.description, fullName),
     env |-> OrElseObj(userVariant.env, EmptyMap),
     defaultArgs |-> userVariant.defaultArgs,
     xdgConfigSubdir |-> None,
     requiredEnvVars |-> userVariant.requiredEnvVars]

\* the preset named by userVariant.extends, None when extends is unset,
\* empty or names no preset
extendsBase(userVariant) ==
    IF IsSome(userVariant.extends) /\ Get(userVariant.extends) # <<>>
    THEN getBuiltinVariant(split(Get(userVariant.extends))[1],
                           join(Tail(split(Get(userVariant.extends)))))
    ELSE None

\* the two return statements of the "if (userVariant)" block
resolveUserVariant(fullName, variantName, userVariant, baseVariant) ==
    IF IsSome(baseVariant)
    THEN mergeVariant(variantName, userVariant, Get(baseVariant))
    ELSE standaloneVariant(fullName, variantName, userVariant)

\* config.variants?.[fullName]
storedVariant(config, fullName) ==
    IF IsSome(config.variants) THEN GetEntry(Get(config.variants), fullName)
    ELSE None

\* a resolver that gives up when extends names no preset, against which the
\* fall-through to the override-only variant is tested
getVariantOf_absentOnDanglingExtends(stored, scaffold, variantName) ==
    IF IsSome(stored)
    THEN IF IsSome(AsOverride(Get(stored)).extends)
            /\ ~IsSome(extendsBase(AsOverride(Get(stored))))
         THEN None
         ELSE Some(resolveUserVariant(FullName(scaffold, variantName), variantName,
                                      AsOverride(Get(stored)),
                                      extendsBase(AsOverride(Get(stored)))))
    ELSE getBuiltinVariant(scaffold, variantName)

\* getVariant once config.variants?.[fullName] is read: None is undefined
getVariantOf(stored, scaffold, variantName) ==
    IF IsSome(stored)
    THEN Some(resolveUserVariant(FullName(scaffold, variantName), variantName,
                                 AsOverride(Get(stored)),
                                 extendsBase(AsOverride(Get(stored)))))
    ELSE getBuiltinVariant(scaffold, variantName)

\* getVariant(scaffold, variantName), reading the file f
getVariant(f, scaffold, variantName) ==
    getVariantOf(storedVariant(loadConfig(f), FullName(scaffold, variantName)),
                 scaffold, variantName)

\* getAllVariants: builtinVariants[scaffold] || {}
builtinsOf(scaffold) ==
    IF scaffold \in DOMAIN builtinVariants THEN builtinVariants[scaffold]
    ELSE [n \in {} |-> None]

\* getAllVariants: the names the loop visits, fullName.slice(prefix.length) of
\* the keys of the loaded config that start with `${scaffold}.`
userVariantNames(config, scaffold) ==
    IF IsSome(config.variants)
    THEN { SubSeq(e.key, Len(scaffold) + 2, Len(e.key)) :
             e \in { x \in {Get(config.variants)[i] : i \in 1..Len(Get(config.variants))} :
                       startsWith(x.key, scaffold \o <<Dot>>) } }
    ELSE {}

\* getAllVariants: userVariants, one entry per visited name that getVariant
\* resolves
userVariantsOf(f, scaffold) ==
    [n \in {m \in userVariantNames(loadConfig(f), scaffold) :
               IsSome(getVariant(f, scaffold, m))}
        |-> Get(getVariant(f, scaffold, n))]

\* getAllVariants(scaffold), reading the file f: { ...builtins, ...userVariants }
getAllVariants(f, scaffold) == Spread(builtinsOf(scaffold), userVariantsOf(f, scaffold))

\* saveVariant on the loaded config: the config it hands to saveConfig
saveVariantIn(config, fullName, variant) ==
    [config EXCEPT
        !.variants = Some(SetEntry(OrElseObj(config.variants, <<>>), fullName, variant))]

\* saveVariant(fullName, variant): the file it writes, having read f
saveVariant(f, fullName, variant) ==
    saveConfig(saveVariantIn(loadConfig(f), fullName, variant))

\* delete config.variants[fullName] on the loaded config
deleteVariantIn(config, fullName) ==
    [config EXCEPT
        !.variants = Some(SelectSeq(Get(config.variants),
                                    LAMBDA e : e.key # fullName))]

\* the test of deleteVariant: config.variants?.[fullName] on the loaded config
deleteVariantHits(f, fullName) == IsSome(storedVariant(loadConfig(f), fullName))

\* deleteVariant(fullName): the file it leaves, having read f; it writes only
\* when the test succeeds
deleteVariant(f, fullName) ==
    IF deleteVariantHits(f, fullName)
    THEN saveConfig(deleteVariantIn(loadConfig(f), fullName))
    ELSE f

----------------------------------------------------------------------------
(* cli.ts: target parsing and resolution *)

\* a string | null value is truthy when it is a non-empty string
NonEmpty(m) == IsSome(m) /\ Get(m) # <<>>

\* parseTarget(input): None is null
parseParts(parts) ==
    IF ~isScaffold(parts[1]) THEN None
    ELSE Some([scaffold |-> parts[1],
               variant |-> IF Len(parts) > 1 THEN Some(join(Tail(parts))) ELSE None])
parseTarget(input) == parseParts(split(input))

\* ensureOpencodeConfig(variant): the directory it returns
OPENCODE_VANILLA_DIR == "~/.config/coderouter/opencode-vanilla"
OPENCODE_OMOC_DIR == "~/.config/coderouter/opencode-omoc"
ensureOpencodeConfig(variant) ==
    IF variant = "omoc" THEN OPENCODE_OMOC_DIR ELSE OPENCODE_VANILLA_DIR

ResolvedTarget(scaffold, variant, command, env, defaultArgs, required) ==
    [scaffold |-> scaffold, variant |-> variant, command |-> command, env |-> env,
     defaultArgs |-> defaultArgs, requiredEnvVars |-> required]

\* Object.assign(env, v.env); defaultArgs = v.defaultArgs || [];
\* requiredEnvVars = v.requiredEnvVars || []
targetOf(scaffold, variant, command, v) ==
    ResolvedTarget(scaffold, variant, command, v.env,
                   OrElseObj(v.defaultArgs, <<>>), OrElseObj(v.requiredEnvVars, <<>>))

\* the gemini branch, v the result of getVariant when a variant is given
resolveGemini(variant, v) ==
    IF IsSome(v)
    THEN Some(targetOf(gemini, variant, "gemini", Get(v)))
    ELSE Some(ResolvedTarget(gemini, variant, "gemini", EmptyMap, <<>>, <<>>))

\* the claude branch with a variant, v the result of getVariant
resolveClaude(variant, v) ==
    IF ~IsSome(v) THEN None
    ELSE Some(targetOf(claude, variant, "claude", Get(v)))

\* resolveTarget(scaffold, variant), reading the file f: None is null
resolveTarget(f, scaffold, variant) ==
    IF scaffold = opencode
    THEN Some(ResolvedTarget(scaffold, variant, "opencode",
             [XDG_CONFIG_HOME |->
                 ensureOpencodeConfig(IF variant = Some(Str("omoc")) THEN "omoc"
                                      ELSE "vanilla")],
             <<>>, <<>>))
    ELSE IF scaffold = codex
    THEN Some(ResolvedTarget(scaffold, None, "codex", EmptyMap, <<>>, <<>>))
    ELSE IF scaffold = gemini
    THEN resolveGemini(variant, IF NonEmpty(variant)
                                THEN getVariant(f, gemini, Get(variant))
                                ELSE None)
    ELSE IF NonEmpty(variant)
    THEN resolveClaude(variant, getVariant(f, claude, Get(variant)))
    ELSE Some(ResolvedTarget(scaffold, variant, "claude", EmptyMap, <<>>, <<>>))

\* target.variant ? `${target.scaffold}.${target.variant}` : target.scaffold
fullTarget(target) ==
    IF NonEmpty(target.variant)
    THEN FullName(target.scaffold, Get(target.variant))
    ELSE target.scaffold

\* a check that looks at the ambient environment only, against which the
\* contribution of stored credentials is tested
missingVars_ambientOnly(requiredEnvVars, processEnv, auth) ==
    SelectSeq(requiredEnvVars, LAMBDA key : ~Truthy(processEnv, key))

\* checkRequiredEnvVars(target), reading the file f and process.env
missingVars(requiredEnvVars, processEnv, auth) ==
    SelectSeq(requiredEnvVars,
              LAMBDA key : ~Truthy(processEnv, key) /\ ~Truthy(auth, key))
checkRequiredEnvVars(f, processEnv, target) ==
    missingVars(target.requiredEnvVars, processEnv, getAuth(f, fullTarget(target)))

----------------------------------------------------------------------------
(* runner.ts: invocation assembly *)

\* an assembly in which the ambient environment is applied last, against
\* which the layering order is tested
assembleEnv_ambientLast(processEnv, auth, targetEnv) ==
    Spread(Spread(auth, targetEnv), processEnv)

\* { ...process.env, ...auth, ...target.env }
assembleEnv(processEnv, auth, targetEnv) == Spread(Spread(processEnv, auth), targetEnv)

\* an assembly that puts the caller's tokens first, against which the
\* argument order is tested
assembleArgs_callerFirst(defaultArgs, args) == args \o defaultArgs

\* [...target.defaultArgs, ...args]
assembleArgs(defaultArgs, args) == defaultArgs \o args

\* the spawn(command, finalArgs, { env }) call of run(target, args)
spawnCall(f, processEnv, target, args) ==
    [command |-> target.command,
     args |-> assembleArgs(target.defaultArgs, args),
     env |-> assembleEnv(processEnv, getAuth(f, fullTarget(target)), target.env)]

----------------------------------------------------------------------------
(* setup.ts: provider templates of the claude scaffold *)

Field(key, default) == [key |-> key, default |-> default]

CLAUDE_PROVIDERS ==
    [aws |->
        [name |-> "AWS Bedrock",
         fields |-> <<Field("ANTHROPIC_MODEL", "us.anthropic.claude-sonnet-4-20250514-v1:0"),
                      Field("ANTHROPIC_SMALL_FAST_MODEL",
                            "us.anthropic.claude-haiku-4-5-20251001-v1:0")>>,
         staticEnv |-> [CLAUDE_CODE_USE_BEDROCK |-> "1"]],
     vertex |->
        [name |-> "Google Cloud Vertex AI",
         fields |-> <<Field("CLOUD_ML_REGION", "us-east5"),
                      Field("ANTHROPIC_MODEL", "claude-sonnet-4@20250514"),
                      Field("ANTHROPIC_SMALL_FAST_MODEL", "claude-haiku-4@20250514")>>,
         staticEnv |-> [CLAUDE_CODE_USE_VERTEX |-> "1"]],
     anthropic |->
        [name |-> "Anthropic Direct",
         fields |-> <<Field("ANTHROPIC_API_KEY", ""),
                      Field("ANTHROPIC_MODEL", "claude-sonnet-4-20250514")>>,
         staticEnv |-> EmptyMap],
     glm |->
        [name |-> "Z.AI (GLM)",
         fields |-> <<Field("ANTHROPIC_API_KEY", ""),
                      Field("ANTHROPIC_MODEL", "glm-4-plus")>>,
         staticEnv |-> [ANTHROPIC_BASE_URL |-> "https://open.z.ai/api/v1"]],
     openrouter |->
        [name |-> "OpenRouter",
         fields |-> <<Field("OPENROUTER_API_KEY", ""),
                      Field("ANTHROPIC_MODEL", "anthropic/claude-sonnet-4")>>,
         staticEnv |-> [ANTHROPIC_BASE_URL |-> "https://openrouter.ai/api/v1"]]]

\* the variant setupGemini saves for a selected model
geminiVariant(model) ==
    UserVariant(None,
                Some(IF model = "pro" THEN Str("Gemini pro") ELSE Str("Gemini flash")),
                Some([GEMINI_MODEL |-> IF model = "pro" THEN "gemini-2.5-pro"
                                       ELSE "gemini-2.5-flash"]),
                None, None)

----------------------------------------------------------------------------
(* Bounded inputs *)

MaxAuth == 2    \* stored credential patterns in a drawn configuration
MaxArgs == 2    \* caller-supplied tokens after the target

SeqsUpTo(S, n) == UNION {[1..k -> S] : k \in 0..n}
DistinctKeys(s) == \A i, j \in 1..Len(s) : i # j => s[i].key # s[j].key
Entry(k, v) == [key |-> k, value |-> v]

K1 == "ANTHROPIC_AUTH_TOKEN"
K2 == "MY_KEY"

\* "a.b.c" written as atoms
Id2(a, b) == <<a, Dot, b>>
Id3(a, b, c) == <<a, Dot, b, Dot, c>>

\* the caller's ambient environment
AmbientEnvs ==
    { [HOME |-> "/home/u"],
      (K1 :> "ambient") @@ [HOME |-> "/home/u"],
      (K1 :> "") @@ (K2 :> "ambient") @@ [HOME |-> "/home/u"] }

\* configurations for the commands
CliOverrides ==
    { UserVariant(e, None, env, ar[1], ar[2]) :
        e \in {None, Some(Id2("claude", "glm")), Some(Id2("claude", "nope"))},
        env \in {None, Some(K1 :> "variant"), Some(K1 :> "")},
        ar \in {<<None, None>>, <<Some(<<"--resume">>), Some(<<K1, K2>>)>>} }
CliKeys == {Id2("claude", "mine"), Id2("gemini", "pro")}
CliAuthEntries ==
    { Entry(<<"claude", Star>>, (K1 :> "cred") @@ (K2 :> "cred2")),
      Entry(<<"claude", Dot, "mine", Star>>, (K1 :> "") @@ (K2 :> "cred-mine")) }
CliAuths == {a \in SeqsUpTo(CliAuthEntries, MaxAuth) : DistinctKeys(a)}
CliFiles ==
    {AbsentFile, MalformedFile}
    \cup { JsonFile([variants |-> v, auth |-> Some(a), secrets |-> None]) :
             v \in {None} \cup {Some(<<Entry(k, o)>>) : k \in CliKeys, o \in CliOverrides},
             a \in CliAuths }

RunTargets ==
    { <<"claude">>, <<"claude", Dot>>, Id2("claude", "glm"), Id2("claude", "mine"),
      Id2("claude", "nope"), Id2("gemini", "pro"), Id2("gemini", "nope"),
      Id2("opencode", "omoc"), Id2("opencode", "nope"), <<"codex">>,
      Id2("codex", "nope"), <<"foo">>, Id2("foo", "x") }
RestArgs == SeqsUpTo({"--resume", "-p"}, MaxArgs)
InfoArgs == {<<>>, <<Str("--help")>>, <<Str("--version")>>, <<Str("list")>>, <<Str("auth")>>}
PromptValues == {"sk-1", "sk-2"}
ExitCodes == {None, Some(0), Some(1), Some(2)}

\* how the operating system reports the end of the child: with an exit code,
\* or with no code when a signal ended it
Ended(code) == [kind |-> IF code = None THEN "signal" ELSE "exit", code |-> code]

\* a close handler that reports success whatever the child's code, against
\* which the forwarding of the exit code is tested
onClose_alwaysZero(code) == 0

\* proc.on("close", (code) => resolve(code ?? 0))
onClose(code) == IF code = None THEN 0 ELSE Get(code)

\* proc.on("error", ...): resolve(1)
onError == 1

----------------------------------------------------------------------------
(* The cr process *)

\* no other instance has started
Instances == {"first", "second"}
NoInstances ==
    [procs |-> [i \in Instances |-> [pc |-> "idle", op |-> None, config |-> EmptyConfig]],
     log |-> <<>>]

NoWizard == [provider |-> "", env |-> EmptyMap, idx |-> 0]

Start(f, e, p) ==
    /\ file = f /\ file0 = f /\ penv = e /\ pc = p
    /\ argv = <<>> /\ resolved = None /\ missing = <<>> /\ child = None
    /\ exitCode = None /\ authVars = <<>> /\ authIdx = 0 /\ wizard = NoWizard
    /\ cancelled = FALSE /\ writes = 0 /\ xdgDirs = {} /\ ret = None
    /\ inst = NoInstances /\ childExit = None

Init == \E f \in CliFiles, e \in AmbientEnvs : Start(f, e, "idle")

\* process.exit(code), or main returning (code 0)
Exit(code) == pc' = "exited" /\ exitCode' = Some(code)

\* cr, cr --help, cr --version, cr list, cr auth: print and return
MainInfo ==
    /\ pc = "idle"
    /\ \E a \in InfoArgs : argv' = a
    /\ Exit(0)
    /\ UNCHANGED <<file, penv, resolved, missing, child, authVars, authIdx, wizard,
                   cancelled, writes, file0, xdgDirs, ret, inst, childExit>>

\* cr <target> [args...]: parseTarget(args[0])
MainRun ==
    /\ pc = "idle"
    /\ \E t \in RunTargets, rest \in RestArgs :
        /\ argv' = <<t>> \o rest
        /\ IF parseTarget(t) = None
           THEN Exit(1)
           ELSE pc' = "resolve" /\ UNCHANGED exitCode
    /\ UNCHANGED <<file, penv, resolved, missing, child, authVars, authIdx, wizard,
                   cancelled, writes, file0, xdgDirs, ret, inst, childExit>>

\* const target = await resolveTarget(scaffold, variant)
Resolved(parsed, target) ==
    /\ xdgDirs' = IF parsed.scaffold = opencode
                  THEN xdgDirs \cup {Get(target).env["XDG_CONFIG_HOME"]}
                  ELSE xdgDirs
    /\ resolved' = target
    /\ IF target = None
       THEN Exit(1)
       ELSE pc' = "check" /\ UNCHANGED exitCode
ResolveParsed(parsed) ==
    Resolved(parsed, resolveTarget(file, parsed.scaffold, parsed.variant))
ResolveTarget ==
    /\ pc = "resolve"
    /\ ResolveParsed(Get(parseTarget(argv[1])))
    /\ UNCHANGED <<file, penv, argv, missing, child, authVars, authIdx, wizard,
                   cancelled, writes, file0, ret, inst, childExit>>

\* const missing = await checkRequiredEnvVars(target)
Checked(m) ==
    /\ missing' = m
    /\ IF Len(m) > 0
       THEN Exit(1)
       ELSE pc' = "run" /\ UNCHANGED exitCode
CheckRequired ==
    /\ pc = "check"
    /\ Checked(checkRequiredEnvVars(file, penv, Get(resolved)))
    /\ UNCHANGED <<file, penv, argv, resolved, child, authVars, authIdx, wizard,
                   cancelled, writes, file0, xdgDirs, ret, inst, childExit>>

\* const exitCode = await run(target, restArgs): up to the spawn call
Run ==
    /\ pc = "run"
    /\ child' = Some(spawnCall(file, penv, Get(resolved), Tail(argv)))
    /\ pc' = "running"
    /\ UNCHANGED <<file, penv, argv, resolved, missing, exitCode, authVars, authIdx,
                   wizard, cancelled, writes, file0, xdgDirs, ret, inst, childExit>>

\* proc.on("close", (code) => resolve(code ?? 0)); process.exit(exitCode)
ProcClose ==
    /\ pc = "running"
    /\ \E code \in ExitCodes :
        /\ childExit' = Some(Ended(code))
        /\ Exit(onClose(code))
    /\ UNCHANGED <<file, penv, argv, resolved, missing, child, authVars, authIdx,
                   wizard, cancelled, writes, file0, xdgDirs, ret, inst>>

\* proc.on("error", ...): resolve(1); process.exit(exitCode)
ProcError ==
    /\ pc = "running"
    /\ childExit' = Some([kind |-> "error", code |-> None])
    /\ Exit(onError)
    /\ UNCHANGED <<file, penv, argv, resolved, missing, child, authVars, authIdx,
                   wizard, cancelled, writes, file0, xdgDirs, ret, inst>>

AuthTargets ==
    { <<"claude">>, Id2("claude", "glm"), Id2("claude", "aws"), Id2("claude", "mine"),
      Id2("claude", "nope"), Id2("gemini", "pro"), Id2("foo", "x") }

\* cr auth <target>: runAuth up to its first read of the configuration
MainAuth ==
    /\ pc = "idle"
    /\ \E t \in AuthTargets :
        /\ argv' = <<Str("auth"), t>>
        /\ IF parseTarget(t) = None \/ ~NonEmpty(Get(parseTarget(t)).variant)
           THEN Exit(1)
           ELSE pc' = "auth_resolve" /\ UNCHANGED exitCode
    /\ UNCHANGED <<file, penv, resolved, missing, child, authVars, authIdx, wizard,
                   cancelled, writes, file0, xdgDirs, ret, inst, childExit>>

\* runAuth: const v = await getVariant(scaffold, variant) and the checks on it
AuthRequired(requiredEnvVars) ==
    IF Len(requiredEnvVars) = 0
    THEN Exit(0) /\ UNCHANGED <<authVars, authIdx>>
    ELSE /\ authVars' = requiredEnvVars
         /\ authIdx' = 1
         /\ pc' = "auth_prompt"
         /\ UNCHANGED exitCode
AuthResolved(v) ==
    IF v = None
    THEN Exit(1) /\ UNCHANGED <<authVars, authIdx>>
    ELSE AuthRequired(OrElseObj(Get(v).requiredEnvVars, <<>>))
AuthParsed(parsed) ==
    AuthResolved(getVariant(file, parsed.scaffold, Get(parsed.variant)))
AuthResolve ==
    /\ pc = "auth_resolve"
    /\ AuthParsed(Get(parseTarget(argv[2])))
    /\ UNCHANGED <<file, penv, argv, resolved, missing, child, wizard, cancelled,
                   writes, file0, xdgDirs, ret, inst, childExit>>

\* runAuth: one pass of the loop, the prompt answered with a value
AuthPrompt ==
    /\ pc = "auth_prompt"
    /\ \E value \in PromptValues :
        file' = saveAuth(file, argv[2], authVars[authIdx], value)
    /\ writes' = writes + 1
    /\ authIdx' = authIdx + 1
    /\ IF authIdx = Len(authVars)
       THEN Exit(0)
       ELSE UNCHANGED <<pc, exitCode>>
    /\ UNCHANGED <<penv, argv, resolved, missing, child, authVars, wizard, cancelled,
                   file0, xdgDirs, ret, inst, childExit>>

\* runAuth: p.isCancel(value): p.cancel("cancelled"); process.exit(0)
AuthCancel ==
    /\ pc = "auth_prompt"
    /\ cancelled' = TRUE
    /\ Exit(0)
    /\ UNCHANGED <<file, penv, argv, resolved, missing, child, authVars, authIdx,
                   wizard, writes, file0, xdgDirs, ret, inst, childExit>>

\* cr setup: runSetup() up to its first prompt
MainSetup ==
    /\ pc = "idle"
    /\ argv' = <<Str("setup")>>
    /\ pc' = "setup_scaffold"
    /\ UNCHANGED <<file, penv, resolved, missing, child, exitCode, authVars, authIdx,
                   wizard, cancelled, writes, file0, xdgDirs, ret, inst, childExit>>

\* runSetup: the scaffold selected
SetupScaffold ==
    /\ pc = "setup_scaffold"
    /\ \E i \in 1..Len(SCAFFOLDS) :
        IF SCAFFOLDS[i] = claude THEN pc' = "setup_provider" /\ UNCHANGED exitCode
        ELSE IF SCAFFOLDS[i] = opencode THEN pc' = "setup_opencode" /\ UNCHANGED exitCode
        ELSE IF SCAFFOLDS[i] = codex THEN Exit(0)
        ELSE pc' = "setup_gemini" /\ UNCHANGED exitCode
    /\ UNCHANGED <<file, penv, argv, resolved, missing, child, authVars, authIdx,
                   wizard, cancelled, writes, file0, xdgDirs, ret, inst, childExit>>

\* setupClaude: the provider selected
SetupProvider ==
    /\ pc = "setup_provider"
    /\ \E provider \in DOMAIN CLAUDE_PROVIDERS :
        wizard' = [provider |-> provider,
                   env |-> CLAUDE_PROVIDERS[provider].staticEnv,
                   idx |-> 1]
    /\ pc' = "setup_field"
    /\ UNCHANGED <<file, penv, argv, resolved, missing, child, exitCode, authVars,
                   authIdx, cancelled, writes, file0, xdgDirs, ret, inst, childExit>>

\* setupClaude: one field answered (an empty answer yields the field's default);
\* after the last field the variant is saved
FieldDone(template, env) ==
    IF wizard.idx = Len(template.fields)
    THEN /\ file' = saveVariant(file, Id2("claude", wizard.provider),
                      UserVariant(None, Some(Str(template.name)), Some(env), None, None))
         /\ writes' = writes + 1
         /\ wizard' = [wizard EXCEPT !.env = env]
         /\ Exit(0)
    ELSE /\ wizard' = [wizard EXCEPT !.env = env, !.idx = @ + 1]
         /\ UNCHANGED <<file, writes, pc, exitCode>>
FieldPrompt(template, field) ==
    \E value \in {field.default, "custom"} :
        FieldDone(template, IF value # "" THEN (field.key :> value) @@ wizard.env
                            ELSE wizard.env)
SetupField ==
    /\ pc = "setup_field"
    /\ FieldPrompt(CLAUDE_PROVIDERS[wizard.provider],
                   CLAUDE_PROVIDERS[wizard.provider].fields[wizard.idx])
    /\ UNCHANGED <<penv, argv, resolved, missing, child, authVars, authIdx, cancelled,
                   file0, xdgDirs, ret, inst, childExit>>

\* setupGemini: the model selected
SetupGemini ==
    /\ pc = "setup_gemini"
    /\ \E model \in {"", "pro", "flash"} :
        IF model # ""
        THEN /\ file' = saveVariant(file, Id2("gemini", model), geminiVariant(model))
             /\ writes' = writes + 1
        ELSE UNCHANGED <<file, writes>>
    /\ Exit(0)
    /\ UNCHANGED <<penv, argv, resolved, missing, child, authVars, authIdx, wizard,
                   cancelled, file0, xdgDirs, ret, inst, childExit>>

\* setupOpencode: the confirm answered either way
SetupOpencode ==
    /\ pc = "setup_opencode"
    /\ Exit(0)
    /\ UNCHANGED <<file, penv, argv, resolved, missing, child, authVars, authIdx,
                   wizard, cancelled, writes, file0, xdgDirs, ret, inst, childExit>>

\* any prompt of the setup wizard cancelled: p.cancel(...); process.exit(0)
SetupCancel ==
    /\ pc \in {"setup_scaffold", "setup_provider", "setup_field", "setup_gemini",
               "setup_opencode"}
    /\ cancelled' = TRUE
    /\ Exit(0)
    /\ UNCHANGED <<file, penv, argv, resolved, missing, child, authVars, authIdx,
                   wizard, writes, file0, xdgDirs, ret, inst, childExit>>

Next ==
    \/ MainInfo \/ MainRun \/ ResolveTarget \/ CheckRequired \/ Run
    \/ ProcClose \/ ProcError
    \/ MainAuth \/ AuthResolve \/ AuthPrompt \/ AuthCancel
    \/ MainSetup \/ SetupScaffold \/ SetupProvider \/ SetupField \/ SetupGemini
    \/ SetupOpencode \/ SetupCancel

Spec == Init /\ [][Next]_vars

\* Another cr instance saves between this process's checkRequiredEnvVars and
\* its run: it writes the document it loaded earlier, which has the same
\* variants and the auth mapping of that earlier moment. checkRequiredEnvVars
\* and run each call getAuth, which reads the file anew.
OtherInstanceSaves ==
    /\ pc = "run"
    /\ inst.log = <<>>
    /\ file.kind = "json"
    /\ \E a \in CliAuths :
        /\ file' = saveConfig([file.doc EXCEPT !.auth = Some(a)])
        /\ file' # file
    /\ inst' = [inst EXCEPT !.log = Append(@, [who |-> "second", what |-> "save"])]
    /\ UNCHANGED <<penv, pc, argv, resolved, missing, child, exitCode, authVars,
                   authIdx, wizard, cancelled, writes, file0, xdgDirs, ret, childExit>>

NextRewrite == Next \/ OtherInstanceSaves

SpecRewrite == Init /\ [][NextRewrite]_vars

----------------------------------------------------------------------------
(* Direct calls of the resolver: getVariant applied to drawn configurations *)

ResolveOverrides ==
    { UserVariant(e, d, env, da, req) :
        e \in {None, Some(Id2("claude", "aws")), Some(Id2("claude", "vertex")),
               Some(Id2("claude", "nope")), Some(Id2("foo", "bar")),
               Some(<<"claude">>), Some(<<>>)},
        d \in {None, Some(<<>>), Some(Str("mine"))},
        env \in {None, Some(EmptyMap), Some([AWS_REGION |-> "eu-west-1"]),
                 Some([AWS_REGION |-> "eu-west-1", MY_FLAG |-> "1"]),
                 Some([MY_FLAG |-> ""])},
        da \in {None, Some(<<>>), Some(<<"--verbose">>)},
        req \in {None, Some(<<>>), Some(<<K2>>)} }
ResolveKeys ==
    { Id2("claude", "aws"), Id2("claude", "mine"), Id3("claude", "aws", "sonnet"),
      Id2("gemini", "pro"), Id2("opencode", "omoc"), Id2("foo", "x") }
Bystander ==
    Entry(Id2("claude", "other"),
          UserVariant(None, Some(Str("other")), Some([OTHER |-> "1"]), None, None))
ResolveFiles ==
    {AbsentFile, MalformedFile, JsonFile(EmptyConfig)}
    \cup { JsonFile([variants |-> Some(<<Bystander, Entry(k, o)>>),
                     auth |-> None, secrets |-> None]) :
             k \in ResolveKeys, o \in ResolveOverrides }
ResolveQueries ==
    { <<claude, Str("aws")>>, <<claude, Str("mine")>>, <<claude, Id2("aws", "sonnet")>>,
      <<claude, Str("vertex")>>, <<claude, Str("nope")>>, <<gemini, Str("pro")>>,
      <<opencode, Str("omoc")>>, <<codex, Str("x")>>, <<Str("foo"), Str("x")>>,
      <<claude, Str("constructor")>>, <<gemini, Str("toString")>> }

ListFamilies == {claude, gemini, opencode, codex, Str("foo")}

InitResolve == \E f \in ResolveFiles : Start(f, EmptyMap, "lib")

\* await getVariant(scaffold, variantName)
CallGetVariant ==
    /\ pc = "lib"
    /\ \E q \in ResolveQueries :
        ret' = Some([fn |-> "getVariant", scaffold |-> q[1], variantName |-> q[2],
                     result |-> getVariant(file, q[1], q[2])])
    /\ UNCHANGED <<file, penv, pc, argv, resolved, missing, child, exitCode, authVars,
                   authIdx, wizard, cancelled, writes, file0, xdgDirs, inst, childExit>>

\* await getAllVariants(scaffold)
CallGetAllVariants ==
    /\ pc = "lib"
    /\ \E sc \in ListFamilies :
        ret' = Some([fn |-> "getAllVariants", scaffold |-> sc,
                     result |-> getAllVariants(file, sc)])
    /\ UNCHANGED <<file, penv, pc, argv, resolved, missing, child, exitCode, authVars,
                   authIdx, wizard, cancelled, writes, file0, xdgDirs, inst, childExit>>

NextResolve == CallGetVariant \/ CallGetAllVariants

SpecResolve == InitResolve /\ [][NextResolve]_vars

----------------------------------------------------------------------------
(* Direct calls of the credential resolver: getAuth applied to drawn auth maps *)

CredPatterns ==
    { <<"claude", Dot, Star>>, <<"claude", Dot, "aws", Dot, Star>>,
      <<"claude", Dot, "aws", Star>>, <<"claude", Star>>, <<"claude", Dot, "aws">>,
      <<"gemini", Star>>, <<Star>>, <<"claude">> }
CredRecords == { [A |-> "1"], [A |-> "2", B |-> "3"] }
CredEntries == {Entry(pat, rec) : pat \in CredPatterns, rec \in CredRecords}
CredFiles ==
    {AbsentFile, MalformedFile, JsonFile(EmptyConfig)}
    \cup { JsonFile([variants |-> None, auth |-> Some(a), secrets |-> None]) :
             a \in {x \in SeqsUpTo(CredEntries, MaxAuth) : DistinctKeys(x)} }
CredTargets ==
    { Id3("claude", "aws", "sonnet"), Id2("claude", "aws"), <<"claude", Dot, "aws", "ome">>,
      <<"claude">>, Id2("gemini", "pro"), <<"codex">> }

InitCreds == \E f \in CredFiles : Start(f, EmptyMap, "lib")

\* await getAuth(target)
CallGetAuth ==
    /\ pc = "lib"
    /\ \E t \in CredTargets :
        ret' = Some([fn |-> "getAuth", target |-> t, result |-> getAuth(file, t)])
    /\ UNCHANGED <<file, penv, pc, argv, resolved, missing, child, exitCode, authVars,
                   authIdx, wizard, cancelled, writes, file0, xdgDirs, inst, childExit>>

NextCreds == CallGetAuth

SpecCreds == InitCreds /\ [][NextCreds]_vars

----------------------------------------------------------------------------
(* Direct calls of the configuration store: loadConfig, saveAuth, saveVariant,
   deleteVariant applied to drawn files of the current and the legacy shape *)

MaxWrites == 1    \* writes of the configuration file in one behaviour

\* variants maps of the current shape
FlatMaps ==
    { <<Entry(Id2("claude", "mine"),
              UserVariant(Some(Id2("claude", "aws")), Some(Str("mine")),
                          Some([AWS_REGION |-> "eu-west-1"]), None, Some(<<K2>>)))>>,
      <<Entry(Id2("claude", "mine"),
              UserVariant(None, None, Some([name |-> "x"]), None, None))>>,
      <<Entry(Id2("claude", "mine"),
              UserVariant(None, Some(Str("named")), Some([name |-> "x"]), None, None))>>,
      <<Entry(Id2("gemini", "pro"),
              UserVariant(None, Some(Str("g")), None, Some(<<"-v">>), None)),
        Entry(Id2("claude", "glm"),
              UserVariant(None, None, Some([ANTHROPIC_MODEL |-> "glm-5"]), None,
                          Some(<<K1>>)))>> }

\* preset-shaped objects of the legacy nested shape
LegacyAws ==
    LegacyVariant(Some(Str("aws")), Some(Str("old aws")), Some([AWS_REGION |-> "us-east-1"]),
                  Some(<<"--verbose">>), Some(<<K1>>))
LegacyBare == LegacyVariant(Some(Str("glm")), None, Some([name |-> "x"]), None, None)
LegacyNameless == LegacyVariant(None, Some(Str("no name")), Some(EmptyMap), None, None)

\* variants maps of the legacy shape, and one mixing both shapes
NestedMaps ==
    { <<Entry(Str("claude"), NestedVariants(<<Entry(Str("aws"), LegacyAws)>>))>>,
      <<Entry(Str("claude"), NestedVariants(<<Entry(Str("aws"), LegacyAws),
                                              Entry(Str("glm"), LegacyBare)>>)),
        Entry(Str("gemini"), NestedVariants(<<Entry(Str("pro"), LegacyAws)>>))>>,
      <<Entry(Str("claude"), NestedVariants(<<Entry(Str("aws"), LegacyNameless)>>))>> }
MixedMaps ==
    { <<Entry(Id2("gemini", "pro"),
              UserVariant(None, Some(Str("g")), None, None, None)),
        Entry(Str("claude"), NestedVariants(<<Entry(Str("aws"), LegacyAws)>>))>> }

StoreAuths ==
    { None,
      Some(<<Entry(<<"claude", Dot, "glm", Star>>, (K1 :> "old") @@ (K2 :> "kept"))>>),
      Some(<<Entry(<<"claude", Star>>, (K1 :> "wide")),
             Entry(<<"gemini", Dot, "pro", Star>>, (K2 :> "g"))>>) }

\* legacy secrets: "target:envVar" -> value, in document order
StoreSecrets ==
    { None,
      Some(<<>>),
      Some(<<Entry(<<"claude", Dot, "glm", Colon, K1>>, "s1"),
             Entry(<<"gemini", Dot, "pro", Colon, "A", Colon, "B">>, "s2")>>),
      Some(<<Entry(<<"nocolon">>, "s3"),
             Entry(<<"claude", Dot, "glm", Colon, K2>>, "s4"),
             Entry(<<Colon, K1>>, "s5")>>) }

\* a file whose text is JSON cut short (an interrupted write of doc):
\* JSON.parse throws on it
TruncatedFile(doc) == [kind |-> "malformed", doc |-> doc]

StoreDocs ==
    { [variants |-> v, auth |-> a, secrets |-> x] :
        v \in {None} \cup {Some(m) : m \in FlatMaps \cup NestedMaps \cup MixedMaps},
        a \in StoreAuths, x \in StoreSecrets }
StoreFiles ==
    {AbsentFile, MalformedFile}
    \cup {JsonFile(d) : d \in StoreDocs}
    \cup {TruncatedFile([variants |-> Some(m), auth |-> a, secrets |-> None]) :
            m \in FlatMaps, a \in StoreAuths \ {None}}

InitStore == \E f \in StoreFiles : Start(f, EmptyMap, "lib")

\* await loadConfig()
CallLoadConfig ==
    /\ pc = "lib"
    /\ ret' = Some([fn |-> "loadConfig", result |-> loadConfig(file)])
    /\ UNCHANGED <<file, penv, pc, argv, resolved, missing, child, exitCode, authVars,
                   authIdx, wizard, cancelled, writes, file0, xdgDirs, inst, childExit>>

\* the targets, variables and values handed to saveAuth
StoreSaves ==
    { <<Id2("claude", "glm"), K1, "new">>, <<Id2("gemini", "pro"), K1, "new">>,
      <<Str("codex"), K2, "new">> }

\* the ids handed to deleteVariant
StoreDeletes ==
    { Id2("claude", "mine"), Id2("gemini", "pro"), Id2("claude", "aws"),
      Id2("claude", "nope"), Str("claude") }

\* await saveAuth(target, envVar, value)
CallSaveAuth ==
    /\ pc = "lib"
    /\ writes < MaxWrites
    /\ \E a \in StoreSaves :
        /\ file' = saveAuth(file, a[1], a[2], a[3])
        /\ ret' = Some([fn |-> "saveAuth", target |-> a[1], envVar |-> a[2],
                        value |-> a[3], before |-> file])
    /\ writes' = writes + 1
    /\ UNCHANGED <<penv, pc, argv, resolved, missing, child, exitCode, authVars,
                   authIdx, wizard, cancelled, file0, xdgDirs, inst, childExit>>

\* the ids and overrides handed to saveVariant
StoreVariants ==
    { <<Id2("claude", "mine"),
        UserVariant(Some(Id2("claude", "aws")), None, None, None, None)>>,
      <<Id2("codex", "fast"),
        UserVariant(None, Some(Str("fast")), Some([MY_FLAG |-> "1"]), None, None)>> }

\* await saveVariant(fullName, variant)
CallSaveVariant ==
    /\ pc = "lib"
    /\ writes < MaxWrites
    /\ \E v \in StoreVariants :
        /\ file' = saveVariant(file, v[1], v[2])
        /\ ret' = Some([fn |-> "saveVariant", fullName |-> v[1], variant |-> v[2],
                        before |-> file])
    /\ writes' = writes + 1
    /\ UNCHANGED <<penv, pc, argv, resolved, missing, child, exitCode, authVars,
                   authIdx, wizard, cancelled, file0, xdgDirs, inst, childExit>>

\* the targets looked up after saveAuth(target, ...): the target itself, a
\* target whose name continues the last segment, a dotted descendant, and an
\* unrelated one
LookupsAfter(target) ==
    { target, target \o <<"x">>, target \o <<Dot, "sub">>, Str("other") }

\* await getAuth(target) once a saveAuth has completed
CallGetAuthSaved ==
    /\ pc = "lib"
    /\ IsSome(ret) /\ Get(ret).fn = "saveAuth"
    /\ \E t \in LookupsAfter(Get(ret).target) :
        ret' = Some([fn |-> "getAuth", target |-> t, result |-> getAuth(file, t),
                     saved |-> Get(ret)])
    /\ UNCHANGED <<file, penv, pc, argv, resolved, missing, child, exitCode, authVars,
                   authIdx, wizard, cancelled, writes, file0, xdgDirs, inst, childExit>>

\* await deleteVariant(fullName)
CallDeleteVariant ==
    /\ pc = "lib"
    /\ writes < MaxWrites
    /\ \E k \in StoreDeletes :
        /\ file' = deleteVariant(file, k)
        /\ writes' = IF deleteVariantHits(file, k) THEN writes + 1 ELSE writes
        /\ ret' = Some([fn |-> "deleteVariant", fullName |-> k,
                        result |-> deleteVariantHits(file, k),
                        before |-> file, writesBefore |-> writes])
    /\ UNCHANGED <<penv, pc, argv, resolved, missing, child, exitCode, authVars,
                   authIdx, wizard, cancelled, file0, xdgDirs, inst, childExit>>

NextStore ==
    \/ CallLoadConfig
    \/ CallGetVariant
    \/ CallGetAuth
    \/ CallGetAllVariants
    \/ CallSaveAuth
    \/ CallSaveVariant
    \/ CallGetAuthSaved
    \/ CallDeleteVariant

SpecStore == InitStore /\ [][NextStore]_vars

----------------------------------------------------------------------------
(* Two tool instances saving to the same configuration file: each runs the
   load, modify, save of saveAuth or saveVariant, the steps interleaved *)

SaveAuthOp(target, envVar, value) ==
    [op |-> "saveAuth", key |-> target, envVar |-> envVar, value |-> value,
     variant |-> None]
SaveVariantOp(fullName, variant) ==
    [op |-> "saveVariant", key |-> fullName, envVar |-> "", value |-> "",
     variant |-> Some(variant)]

RaceOps ==
    { SaveAuthOp(Id2("claude", "glm"), K1, "sk-1"),
      SaveAuthOp(Id2("claude", "glm"), K1, "sk-2"),
      SaveAuthOp(Id2("claude", "glm"), K2, "sk-3"),
      SaveAuthOp(Id2("gemini", "pro"), K1, "sk-4"),
      SaveVariantOp(Id2("gemini", "pro"), geminiVariant("pro")),
      SaveVariantOp(Id2("claude", "mine"),
                    UserVariant(Some(Id2("claude", "aws")), None, None, None, None)) }
RaceFiles ==
    { AbsentFile, MalformedFile, JsonFile(EmptyConfig),
      JsonFile([variants |-> None, secrets |-> None,
                auth |-> Some(<<Entry(<<"claude", Dot, "glm", Star>>, (K1 :> "old"))>>)]),
      JsonFile([variants |-> Some(<<Entry(Id2("gemini", "pro"),
                                          UserVariant(None, Some(Str("g")), None, None,
                                                      None))>>),
                secrets |-> None,
                auth |-> Some(<<Entry(<<"claude", Star>>, (K2 :> "wide"))>>)]) }

InitRace == \E f \in RaceFiles : Start(f, EmptyMap, "lib")

\* the modification saveAuth or saveVariant makes on the loaded document
modify(config, op) ==
    IF op.op = "saveAuth"
    THEN saveAuthIn(config, op.key, op.envVar, op.value)
    ELSE saveVariantIn(config, op.key, Get(op.variant))

\* saveAuth / saveVariant of one instance: const config = await loadConfig()
RaceLoad ==
    /\ pc = "lib"
    /\ \E i \in Instances, op \in RaceOps :
        /\ inst.procs[i].pc = "idle"
        /\ inst' = [procs |-> [inst.procs EXCEPT
                                 ![i] = [pc |-> "loaded", op |-> Some(op),
                                         config |-> loadConfig(file)]],
                    log |-> Append(inst.log, [who |-> i, what |-> "load"])]
    /\ UNCHANGED <<file, penv, pc, argv, resolved, missing, child, exitCode, authVars,
                   authIdx, wizard, cancelled, writes, file0, xdgDirs, ret, childExit>>

\* saveAuth / saveVariant of one instance: the assignment on its loaded
\* document and await saveConfig(config)
RaceSave ==
    /\ pc = "lib"
    /\ \E i \in Instances :
        /\ inst.procs[i].pc = "loaded"
        /\ file' = saveConfig(modify(inst.procs[i].config, Get(inst.procs[i].op)))
        /\ inst' = [procs |-> [inst.procs EXCEPT ![i].pc = "done"],
                    log |-> Append(inst.log, [who |-> i, what |-> "save"])]
    /\ writes' = writes + 1
    /\ UNCHANGED <<penv, pc, argv, resolved, missing, child, exitCode, authVars,
                   authIdx, wizard, cancelled, file0, xdgDirs, ret, childExit>>

NextRace == RaceLoad \/ RaceSave

SpecRace == InitRace /\ [][NextRace]_vars

----------------------------------------------------------------------------
(* Properties of the variant resolver, stated on the calls of SpecResolve *)

Range(s) == {s[i] : i \in 1..Len(s)}

\* the getVariant calls that have returned
VariantCalls == {r \in Range(ret) : r.fn = "getVariant"}

\* what the configuration file stores under key, read off the document itself
StoredAt(key) ==
    IF file.kind = "json" /\ IsSome(file.doc.variants)
    THEN {e.value : e \in {x \in Range(Get(file.doc.variants)) : x.key = key}}
    ELSE {}

\* the presets whose identifier <family>.<name> is ref
PresetsNamed(ref) ==
    UNION { {builtinVariants[fam][n] :
               n \in {m \in DOMAIN builtinVariants[fam] : ref = fam \o <<Dot>> \o m}} :
            fam \in DOMAIN builtinVariants }

\* the presets an override extends
ExtendedBy(o) == IF IsSome(o.extends) THEN PresetsNamed(Get(o.extends)) ELSE {}

\* an optional text that is set to something non-empty
HasText(m) == IsSome(m) /\ Get(m) # <<>>

C9_UnknownFamilyAbsent ==
    /\ \A t \in RunTargets \cup AuthTargets :
         ~isScaffold(split(t)[1]) => parseTarget(t) = None
    /\ \A r \in VariantCalls : ~isScaffold(r.scaffold) => r.result = None

----------------------------------------------------------------------------
(* Properties of the credential resolver, stated on the calls of SpecCreds *)

\* the getAuth calls that have returned
AuthCalls == {r \in Range(ret) : r.fn = "getAuth"}

\* the stored credential entries, read off the document itself
StoredAuth ==
    IF file.kind = "json" /\ IsSome(file.doc.auth)
    THEN Range(Get(file.doc.auth)) ELSE {}

\* the literal prefix a pattern asks the target to start with
PrefixOf(pattern) ==
    IF pattern # <<>> /\ pattern[Len(pattern)] = Star
    THEN SubSeq(pattern, 1, Len(pattern) - 1) ELSE pattern

\* the stored entries whose pattern matches the target
Matching(target) == {e \in StoredAuth : matchesGlob(target, e.key)}

\* the matching entries with the longest prefix
MostSpecific(target) ==
    {e \in Matching(target) :
        \A d \in Matching(target) : Len(PrefixOf(d.key)) <= Len(PrefixOf(e.key))}

\* C2: when several stored patterns match a target, getAuth returns the record
\* of the one with the longest prefix, whatever the order in which the
\* patterns are stored.
C2_LongestPrefixMatch ==
    \A r \in AuthCalls :
        Matching(r.target) # {} =>
            \E e \in MostSpecific(r.target) : r.result = e.value

----------------------------------------------------------------------------
(* Properties of the cr process, stated on the behaviours of Spec *)

\* the process is running cr <target> [args...]
RunCommand == Len(argv) >= 1 /\ argv[1] \in RunTargets

\* the run command has a resolved target in hand
HasTarget == RunCommand /\ IsSome(resolved)

\* the credential mapping matched for the resolved target
MatchedCred == getAuth(file, fullTarget(Get(resolved)))

\* a name with a non-empty value in neither the ambient environment nor the
\* matched credentials
Lacking(k) == ~Truthy(penv, k) /\ ~Truthy(MatchedCred, k)

\* C4: cr spawns the target only if every required name has a (non-empty)
\* value in the ambient environment or in the matched credential mapping; the
\* variant's own env does not count. Otherwise it exits with code 1 without
\* spawning, and the reported list holds exactly the required names lacking
\* in both.
C4_RequiredBeforeSpawn ==
    HasTarget =>
        /\ IsSome(child) =>
             \A k \in Range(Get(resolved).requiredEnvVars) : ~Lacking(k)
        /\ pc \in {"run", "running", "exited"} =>
             /\ missing = SelectSeq(Get(resolved).requiredEnvVars, Lacking)
             /\ missing # <<>> =>
                  pc = "exited" /\ exitCode = Some(1) /\ ~IsSome(child)

\* cr claude.mine was spawned although ANTHROPIC_AUTH_TOKEN is empty in the
\* ambient environment: the credential stored under claude* supplies it
C4_Witness ==
    /\ HasTarget /\ argv[1] = Id2("claude", "mine")
    /\ IsSome(child)
    /\ Get(resolved).requiredEnvVars = <<K1, K2>>
    /\ K1 \in DOMAIN penv /\ penv[K1] = ""
    /\ Truthy(penv, K2)
    /\ MatchedCred[K1] = "cred"

\* C5: in the environment handed to the spawned process every name carries the
\* resolved target's env value if that env defines the name, else the matched
\* credential's value if the credential mapping defines it, else the ambient
\* value; no other name appears.
C5_EnvPrecedence ==
    HasTarget /\ IsSome(child) =>
        /\ DOMAIN Get(child).env
             = DOMAIN Get(resolved).env \cup DOMAIN MatchedCred \cup DOMAIN penv
        /\ \A k \in DOMAIN Get(child).env :
             Get(child).env[k]
               = IF k \in DOMAIN Get(resolved).env THEN Get(resolved).env[k]
                 ELSE IF k \in DOMAIN MatchedCred THEN MatchedCred[k]
                 ELSE penv[k]

\* all three layers at once: the variant's value hides the credential's and the
\* ambient one, the credential's value hides the ambient one, and HOME comes
\* through from the ambient environment
C5_Witness ==
    /\ HasTarget /\ IsSome(child)
    /\ K1 \in DOMAIN Get(resolved).env /\ Get(resolved).env[K1] = "variant"
    /\ K1 \in DOMAIN MatchedCred /\ MatchedCred[K1] = "cred"
    /\ K2 \in DOMAIN MatchedCred /\ MatchedCred[K2] = "cred2"
    /\ K1 \in DOMAIN penv /\ K2 \in DOMAIN penv /\ penv[K2] = "ambient"
    /\ Get(child).env[K1] = "variant"
    /\ Get(child).env[K2] = "cred2"
    /\ Get(child).env["HOME"] = "/home/u"

\* C6: the argument vector of the spawned process is the resolved target's
\* defaultArgs followed by the caller's tokens after the target, in their
\* order, nothing removed, merged or moved.
C6_ArgumentOrder ==
    HasTarget /\ IsSome(child) =>
        /\ Len(Get(child).args) = Len(Get(resolved).defaultArgs) + Len(argv) - 1
        /\ \A i \in 1..Len(Get(resolved).defaultArgs) :
             Get(child).args[i] = Get(resolved).defaultArgs[i]
        /\ \A i \in 2..Len(argv) :
             Get(child).args[Len(Get(resolved).defaultArgs) + i - 1] = argv[i]

\* the variant's --resume comes first and the caller's --resume is kept
C6_Witness ==
    /\ HasTarget /\ IsSome(child)
    /\ Get(resolved).defaultArgs = <<"--resume">>
    /\ Tail(argv) = <<"--resume", "-p">>
    /\ Get(child).args = <<"--resume", "--resume", "-p">>

\* the configuration holds no override for the target of the run command and
\* the preset table no preset
UnknownVariant ==
    /\ RunCommand
    /\ IsSome(parseTarget(argv[1]))
    /\ NonEmpty(Get(parseTarget(argv[1])).variant)
    /\ StoredAt(argv[1]) = {}
    /\ PresetsNamed(argv[1]) = {}

\* C7: for every family, cr <family>.<variant> with neither an override nor a
\* preset for the variant spawns nothing and exits with code 1.
C7_UnknownVariantFails ==
    UnknownVariant =>
        /\ ~IsSome(child)
        /\ pc = "exited" => exitCode = Some(1)

\* the override stored for the target of the run command names, in extends,
\* no preset of the table
DanglingOverrides ==
    IF RunCommand
    THEN {o \in StoredAt(argv[1]) : IsSome(o.extends) /\ ExtendedBy(o) = {}}
    ELSE {}

C10_CancelPersistsNothing ==
    cancelled => file = file0 /\ writes = 0

----------------------------------------------------------------------------
(* Properties of the configuration store, stated on the calls of SpecStore *)

\* the loadConfig calls that have returned
LoadCalls == {r \in Range(ret) : r.fn = "loadConfig"}

\* the entries of an optional sequence of entries
EntriesOf(m) == IF IsSome(m) THEN Range(Get(m)) ELSE {}

\* a document of the current shape: no legacy secrets, every variants entry
\* keyed by a full target id and holding an override
IsCurrentShape(doc) ==
    /\ doc.secrets = None
    /\ \A e \in EntriesOf(doc.variants) : e.value.shape = "flat"

\* C11: loading a document of the current shape returns it unchanged; and for
\* every parseable document, writing the loaded document out as JSON and
\* loading that again gives the same document as the first load.
C11_MigrationIdempotent ==
    file.kind = "json" =>
        \A r \in LoadCalls :
            /\ IsCurrentShape(file.doc) => r.result = file.doc
            /\ stringify(loadConfig(saveConfig(r.result))) = stringify(r.result)

\* a variants map whose entries are all overrides keyed by full target id
AllFlat(m) == \A e \in EntriesOf(m) : e.value.shape = "flat"

\* a variants map whose entries are all legacy families of objects with a name
AllLegacy(m) ==
    \A e \in EntriesOf(m) :
        /\ e.value.shape = "nested"
        /\ \A i \in 1..Len(e.value.members) : IsSome(e.value.members[i].value.name)

\* the loaded variants hold, under family.variantName, the four copied
\* properties of the legacy member
Rewritten(loaded, family, member) ==
    \E n \in EntriesOf(loaded) :
        /\ n.key = family \o <<Dot>> \o member.key
        /\ n.value.description = member.value.description
        /\ n.value.env = member.value.env
        /\ n.value.defaultArgs = member.value.defaultArgs
        /\ n.value.requiredEnvVars = member.value.requiredEnvVars

\* C12: on load, a variants map of the current shape is returned with every
\* entry as stored, whatever the overrides hold; a map of the legacy shape is
\* rewritten, each member to variants[family.variantName] with its
\* description, env, defaultArgs and requiredEnvVars.
C12_FlatVariantsSurvive ==
    file.kind = "json" =>
        \A r \in LoadCalls :
            /\ AllFlat(file.doc.variants) => r.result.variants = file.doc.variants
            /\ AllLegacy(file.doc.variants) =>
                 \A e \in EntriesOf(file.doc.variants) :
                     \A i \in 1..Len(e.value.members) :
                         Rewritten(r.result.variants, e.key, e.value.members[i])

\* the positions at which a legacy secret key "target:envVar" splits: its
\* first colon, with text on both sides
SecretSplits(key) ==
    {c \in 2..(Len(key) - 1) : key[c] = Colon /\ \A j \in 1..(c - 1) : key[j] # Colon}

\* the keys the legacy secrets are migrated to
MigratedKeys(secrets) ==
    UNION { {SubSeq(e.key, 1, c - 1) \o <<Star>> : c \in SecretSplits(e.key)} :
            e \in EntriesOf(secrets) }

\* the record the loaded auth mapping holds under key, the empty mapping if none
LoadedAuth(loaded, key) ==
    IF \E a \in EntriesOf(loaded) : a.key = key
    THEN (CHOOSE a \in EntriesOf(loaded) : a.key = key).value
    ELSE EmptyMap

\* C13: on load of a document with a legacy secrets mapping, every entry
\* "target:envVar" -> value, split at its first colon, is found as
\* auth[target*][envVar] = value; the records already in auth keep their
\* variables, those under other keys are kept as they are and no further key
\* appears; the loaded document has no secrets field.
C13_SecretsMigration ==
    file.kind = "json" /\ IsSome(file.doc.secrets) =>
        \A r \in LoadCalls :
            /\ r.result.secrets = None
            /\ \A e \in EntriesOf(file.doc.secrets) :
                 \A c \in SecretSplits(e.key) :
                     /\ EnvName(SubSeq(e.key, c + 1, Len(e.key)))
                          \in DOMAIN LoadedAuth(r.result.auth,
                                                SubSeq(e.key, 1, c - 1) \o <<Star>>)
                     /\ LoadedAuth(r.result.auth, SubSeq(e.key, 1, c - 1) \o <<Star>>)
                          [EnvName(SubSeq(e.key, c + 1, Len(e.key)))] = e.value
            /\ \A a \in EntriesOf(file.doc.auth) :
                 /\ DOMAIN a.value \subseteq DOMAIN LoadedAuth(r.result.auth, a.key)
                 /\ a.key \notin MigratedKeys(file.doc.secrets) =>
                      LoadedAuth(r.result.auth, a.key) = a.value
            /\ {a.key : a \in EntriesOf(r.result.auth)}
                 = {a.key : a \in EntriesOf(file.doc.auth)}
                   \cup MigratedKeys(file.doc.secrets)

\* claude.glm:ANTHROPIC_AUTH_TOKEN replaced the stored value under claude.glm*,
\* whose other variable is kept; gemini.pro:A:B was split at its first colon
C13_Witness ==
    /\ file.kind = "json"
    /\ file.doc.secrets
         = Some(<<Entry(<<"claude", Dot, "glm", Colon, K1>>, "s1"),
                  Entry(<<"gemini", Dot, "pro", Colon, "A", Colon, "B">>, "s2")>>)
    /\ file.doc.auth
         = Some(<<Entry(<<"claude", Dot, "glm", Star>>, (K1 :> "old") @@ (K2 :> "kept"))>>)
    /\ \E r \in LoadCalls :
        /\ r.result.secrets = None
        /\ LoadedAuth(r.result.auth, <<"claude", Dot, "glm", Star>>)
             = (K1 :> "s1") @@ (K2 :> "kept")
        /\ LoadedAuth(r.result.auth, <<"gemini", Dot, "pro", Star>>) = ("A:B" :> "s2")

----------------------------------------------------------------------------
(* Properties of concurrent saves, stated on the behaviours of SpecRace *)

\* both instances have saved
BothSaved == \A i \in Instances : inst.procs[i].pc = "done"

\* position of an instance's load or save in the log
LogPos(i, what) ==
    CHOOSE n \in 1..Len(inst.log) : inst.log[n] = [who |-> i, what |-> what]

\* the instance whose save came last, and the other one
LastWriter == inst.log[Len(inst.log)].who
FirstWriter == CHOOSE i \in Instances : i # LastWriter

\* the file one instance alone leaves when it runs its operation on file f
WrittenAlone(f, op) == JsonFile(stringify(modify(loadConfig(f), op)))

\* the last writer loaded before the other instance saved
LostUpdate == LogPos(LastWriter, "load") < LogPos(FirstWriter, "save")

\* C14: when two instances interleave load, modify, save on the same file, the
\* final file is the document of the instance that saved last. If that
\* instance loaded before the other one saved, the file is what the last
\* writer alone would have written on the original file, so the other
\* instance's update is not in it; otherwise it is the last writer's
\* operation applied to what the first writer left.
C14_LastWriteWins ==
    BothSaved =>
        file = IF LostUpdate
               THEN WrittenAlone(file0, Get(inst.procs[LastWriter].op))
               ELSE WrittenAlone(WrittenAlone(file0, Get(inst.procs[FirstWriter].op)),
                                 Get(inst.procs[LastWriter].op))

\* on an empty document one instance saved a credential for claude.glm and
\* the other, having loaded before that save, saved the variant gemini.pro
\* last: the final file holds the variant and no credential
C14_Witness ==
    /\ BothSaved /\ LostUpdate
    /\ file0 = JsonFile(EmptyConfig)
    /\ Get(inst.procs[FirstWriter].op) = SaveAuthOp(Id2("claude", "glm"), K1, "sk-1")
    /\ Get(inst.procs[LastWriter].op).op = "saveVariant"
    /\ file.kind = "json"
    /\ file.doc.auth = None
    /\ \E e \in EntriesOf(file.doc.variants) : e.key = Id2("gemini", "pro")

----------------------------------------------------------------------------
(* Properties of a run on an absent or unparseable file, stated on the calls
   of SpecStore *)

\* C15: loadConfig does not throw; when the file is absent or its content
\* fails to parse, loadConfig returns the empty document, getVariant returns
\* what the built-in preset lookup returns for the same family and name, and
\* getAuth returns the empty mapping for every target.
C15_MalformedDegradesToEmpty ==
    file.kind # "json" =>
        /\ \A r \in LoadCalls : r.result = EmptyConfig
        /\ \A r \in VariantCalls :
               r.result = getBuiltinVariant(r.scaffold, r.variantName)
        /\ \A r \in AuthCalls : r.result = EmptyMap

\* the text of the file is cut short; what is left of it has an override for
\* gemini.pro and credentials, and getVariant(gemini, pro) returns the preset
C15_Witness ==
    /\ file.kind = "malformed"
    /\ IsSome(file.doc.auth)
    /\ \E e \in EntriesOf(file.doc.variants) : e.key = Id2("gemini", "pro")
    /\ \E r \in VariantCalls :
        /\ r.scaffold = gemini /\ r.variantName = Str("pro")
        /\ r.result = Some(builtinVariants[gemini][Str("pro")])

----------------------------------------------------------------------------
(* Properties of a credential miss, stated on the calls of SpecCreds *)

\* the target and its dotted prefixes: the target cut before one of its dots
DottedPrefixes(target) ==
    { SubSeq(target, 1, n) :
        n \in {m \in 1..Len(target) : m = Len(target) \/ target[m + 1] = Dot} }

\* the pattern fits the text: the text begins with the pattern's literal part
\* when the pattern ends in the wildcard, and is the pattern otherwise
Fits(text, pattern) ==
    IF pattern # <<>> /\ pattern[Len(pattern)] = Star
    THEN /\ Len(PrefixOf(pattern)) <= Len(text)
         /\ \A n \in 1..Len(PrefixOf(pattern)) : text[n] = pattern[n]
    ELSE text = pattern

\* no stored pattern fits the target or one of its dotted prefixes
Miss(target) ==
    \A e \in StoredAuth : \A q \in DottedPrefixes(target) : ~Fits(q, e.key)

\* C16: getAuth returns the empty mapping when the configuration has no auth
\* mapping (the file is absent, unparseable or has none) and when no stored
\* pattern matches the target or any of its dotted prefixes.
C16_CredentialMiss ==
    \A r \in AuthCalls : Miss(r.target) => r.result = EmptyMap

\* credentials are stored for patterns that begin with claude, and getAuth
\* for gemini.pro returned the empty mapping
C16_Witness ==
    /\ StoredAuth # {}
    /\ \A e \in StoredAuth : e.key[1] = "claude"
    /\ \E r \in AuthCalls : r.target = Id2("gemini", "pro") /\ r.result = EmptyMap

----------------------------------------------------------------------------
(* Properties of the fallback to the presets, stated on the calls of
   SpecResolve *)

\* the preset compiled in for a family and a name, read off the preset table
PresetFor(scaffold, variantName) ==
    IF PresetsNamed(FullName(scaffold, variantName)) = {} THEN None
    ELSE Some(CHOOSE P \in PresetsNamed(FullName(scaffold, variantName)) : TRUE)

\* C17: with no override stored at family.name, getVariant(family, name)
\* returns the compiled-in preset for (family, name), with the same
\* description, env, defaultArgs and requiredEnvVars, and returns absent when
\* there is no such preset.
C17_FallbackToBuiltin ==
    \A r \in VariantCalls :
        StoredAt(FullName(r.scaffold, r.variantName)) = {} =>
            r.result = PresetFor(r.scaffold, r.variantName)

----------------------------------------------------------------------------
(* Properties of the writes of the configuration store, stated on the calls
   of SpecStore *)

\* the saveAuth calls that have returned
SaveAuthCalls == {r \in Range(ret) : r.fn = "saveAuth"}

\* the auth records a document stores under a pattern
RecordsAt(doc, pattern) == {e.value : e \in {x \in EntriesOf(doc.auth) : x.key = pattern}}

\* the auth entries a document stores under the other patterns
OtherRecords(doc, pattern) == {e \in EntriesOf(doc.auth) : e.key # pattern}

\* C18: saveAuth(target, envVar, value) on a parseable document of the
\* current shape leaves a parseable document in which the record at
\* target + "*" holds value for envVar and, for its other variables, what it
\* held before; every other auth record and the variants map are the same as
\* before the call.
C18_SaveAuthFrame ==
    \A r \in SaveAuthCalls :
        (r.before.kind = "json" /\ IsCurrentShape(r.before.doc)) =>
            /\ file.kind = "json"
            /\ RecordsAt(file.doc, r.target \o <<Star>>) # {}
            /\ \A new \in RecordsAt(file.doc, r.target \o <<Star>>) :
                /\ r.envVar \in DOMAIN new /\ new[r.envVar] = r.value
                /\ \A old \in RecordsAt(r.before.doc, r.target \o <<Star>>) :
                    /\ DOMAIN new = DOMAIN old \cup {r.envVar}
                    /\ \A v \in DOMAIN old \ {r.envVar} : new[v] = old[v]
                /\ RecordsAt(r.before.doc, r.target \o <<Star>>) = {}
                       => DOMAIN new = {r.envVar}
            /\ OtherRecords(file.doc, r.target \o <<Star>>)
                   = OtherRecords(r.before.doc, r.target \o <<Star>>)
            /\ file.doc.variants = r.before.doc.variants
            /\ file.doc.secrets = None

\* the deleteVariant calls that have returned
DeleteCalls == {r \in Range(ret) : r.fn = "deleteVariant"}

\* the file stores an override at id
StoresOverride(f, id) ==
    f.kind = "json" /\ \E e \in EntriesOf(f.doc.variants) : e.key = id

\* the variants entries of a document without the one at id, in stored order
WithoutEntry(doc, id) == SelectSeq(Get(doc.variants), LAMBDA e : e.key # id)

\* the (family, name) pairs whose full id is id
PairsOf(id) ==
    {q \in ResolveQueries \cup {<<gemini, Str("pro")>>, <<claude, Str("mine")>>} :
        FullName(q[1], q[2]) = id}

\* C19: on a file that is absent, unparseable or of the current shape,
\* deleteVariant(fullId) returns true exactly when an override is stored at
\* fullId. When it returns true the persisted document has no entry at
\* fullId, its other variants entries and its auth mapping are the same as
\* before, and getVariant for that id gives what the preset lookup gives.
\* When it returns false the file is the one it was and no write happened.
C19_DeleteVariant ==
    \A r \in DeleteCalls :
        (r.before.kind = "json" => IsCurrentShape(r.before.doc)) =>
            /\ r.result = StoresOverride(r.before, r.fullName)
            /\ r.result =>
                /\ file.kind = "json"
                /\ file.doc.variants = Some(WithoutEntry(r.before.doc, r.fullName))
                /\ file.doc.auth = r.before.doc.auth
                /\ file.doc.secrets = None
                /\ writes = r.writesBefore + 1
                /\ \A q \in PairsOf(r.fullName) :
                       getVariant(file, q[1], q[2]) = getBuiltinVariant(q[1], q[2])
            /\ ~r.result => file = r.before /\ writes = r.writesBefore

----------------------------------------------------------------------------
(* Properties of the exit code of cr <target>, stated on the behaviours of
   Spec *)

\* C20: once the target process was spawned, cr exits with the exit code the
\* process ended with, and with 1 when the process could not be started; the
\* spawn call is made once, so nothing is retried after either outcome.
C20_ExitCodeForwarding ==
    /\ [](pc = "exited" /\ IsSome(child) =>
            /\ IsSome(childExit)
            /\ Get(childExit).kind = "exit" => exitCode = Get(childExit).code
            /\ Get(childExit).kind = "error" => exitCode = Some(1))
    /\ [][IsSome(child) => child' = child /\ pc' # "run"]_vars

\* the target process ended with code 2 and cr exited with 2
C20_Witness ==
    /\ pc = "exited" /\ IsSome(child)
    /\ childExit = Some(Ended(Some(2)))
    /\ exitCode = Some(2)

----------------------------------------------------------------------------
(* Properties of the listing, stated on the calls of SpecStore *)

\* the getAllVariants calls that have returned
ListCalls == {r \in Range(ret) : r.fn = "getAllVariants"}

\* the preset names of a family, read off the preset table
PresetNames(family) ==
    IF family \in DOMAIN builtinVariants THEN DOMAIN builtinVariants[family] ELSE {}

\* what follows "family." in the override keys the file stores for the family
StoredNames(family) ==
    IF file.kind = "json"
    THEN { SubSeq(e.key, Len(family) + 2, Len(e.key)) :
             e \in { x \in EntriesOf(file.doc.variants) :
                       /\ Len(x.key) > Len(family)
                       /\ SubSeq(x.key, 1, Len(family)) = family
                       /\ x.key[Len(family) + 1] = Dot } }
    ELSE {}

\* C21: on a file that is absent, unparseable or of the current shape,
\* getAllVariants(family) returns a mapping whose keys are the family's preset
\* names and the names after "family." of the stored override keys; a name
\* with a stored override maps to what getVariant(family, name) returns, also
\* when a preset has that name, and every other preset name maps to the preset.
C21_Listing ==
    \A r \in ListCalls :
        (file.kind = "json" => IsCurrentShape(file.doc)) =>
            /\ DOMAIN r.result = PresetNames(r.scaffold) \cup StoredNames(r.scaffold)
            /\ \A n \in StoredNames(r.scaffold) \cap DOMAIN r.result :
                   Some(r.result[n]) = getVariant(file, r.scaffold, n)
            /\ \A n \in PresetNames(r.scaffold) \ StoredNames(r.scaffold) :
                   n \in DOMAIN r.result /\ r.result[n] = builtinVariants[r.scaffold][n]

----------------------------------------------------------------------------
(* Properties of saved credentials, stated on the calls of SpecStore *)

\* the getAuth calls made after a saveAuth completed
SavedLookups == {r \in AuthCalls : "saved" \in DOMAIN r}

\* the result holds the value that was saved for the variable
HoldsSaved(r) ==
    r.saved.envVar \in DOMAIN r.result /\ r.result[r.saved.envVar] = r.saved.value

\* C22: after saveAuth(T, K, V) has completed, getAuth(T) returns a mapping in
\* which K has value V, whatever the auth mapping held before.
C22_SaveThenLookup ==
    \A r \in SavedLookups : r.target = r.saved.target => HoldsSaved(r)

\* U is T or a dotted descendant of T
IsOrDescends(u, t) == u = t \/ startsWith(u, t \o <<Dot>>)

\* C23: a credential saved with saveAuth(T, K, V) is returned by getAuth(U)
\* only when U is T or a dotted descendant of T; a target whose name merely
\* begins with the characters of T does not get it.
C23_CredentialIsolation ==
    \A r \in SavedLookups : HoldsSaved(r) => IsOrDescends(r.target, r.saved.target)

----------------------------------------------------------------------------
(* The first-match reference for getAuth, stated on the calls of SpecCreds *)

\* the auth mapping of the file in storage order
StoredOrder ==
    IF file.kind = "json" /\ IsSome(file.doc.auth) THEN Get(file.doc.auth) ELSE <<>>

\* the positions of the stored patterns that fit the full target
FullMatches(target) ==
    {j \in 1..Len(StoredOrder) : Fits(target, StoredOrder[j].key)}

\* the dotted prefixes of the target that are stored keys
StoredPrefixes(target) ==
    {q \in DottedPrefixes(target) : \E e \in StoredAuth : e.key = q}

\* what the reference returns: the record of the first stored pattern that
\* fits the full target; failing that, the record stored under the longest
\* dotted prefix of the target that is itself a key; failing that, nothing
Reference(target) ==
    IF FullMatches(target) # {}
    THEN StoredOrder[CHOOSE j \in FullMatches(target) :
                        \A k \in FullMatches(target) : j <= k].value
    ELSE IF StoredPrefixes(target) # {}
         THEN (CHOOSE e \in StoredAuth :
                 /\ e.key \in StoredPrefixes(target)
                 /\ \A q \in StoredPrefixes(target) : Len(q) <= Len(e.key)).value
         ELSE EmptyMap

----------------------------------------------------------------------------
(* Properties of the spawned environment when the configuration file can be
   rewritten before the spawn, stated on the behaviours of SpecRewrite *)

\* C25: whenever cr has spawned the target process, every name in the
\* resolved requiredEnvVars has a non-empty value in the environment handed
\* to that process.
C25_SpawnImpliesRequired ==
    HasTarget /\ IsSome(child) =>
        \A k \in Range(Get(resolved).requiredEnvVars) : Truthy(Get(child).env, k)

----------------------------------------------------------------------------
(* Properties of what a save keeps, stated on the calls of SpecStore *)

\* the saveAuth and saveVariant calls that have returned
SaveCalls == {r \in Range(ret) : r.fn \in {"saveAuth", "saveVariant"}}

\* the variants key and the auth key a save sets
SetsVariant(r) == IF r.fn = "saveVariant" THEN {r.fullName} ELSE {}
SetsAuth(r) == IF r.fn = "saveAuth" THEN {r.target \o <<Star>>} ELSE {}

\* the entries that can be read from a file: those of its document when it
\* parses, those left in its text when it does not
ReadableVariants(f) == IF f.kind = "absent" THEN {} ELSE EntriesOf(f.doc.variants)
ReadableAuth(f) == IF f.kind = "absent" THEN {} ELSE EntriesOf(f.doc.auth)

\* C26: for every content of the configuration file of the current shape,
\* a file that fails to parse included, every variants entry and every auth
\* record that can be read from the file before saveVariant or saveAuth is in
\* the file afterwards, except the entry the operation sets.
C26_SaveKeepsOthers ==
    \A r \in SaveCalls :
        IsCurrentShape(r.before.doc) =>
            /\ file.kind = "json"
            /\ \A e \in ReadableVariants(r.before) :
                   e.key \notin SetsVariant(r) => e \in EntriesOf(file.doc.variants)
            /\ \A e \in ReadableAuth(r.before) :
                   e.key \notin SetsAuth(r) => e \in EntriesOf(file.doc.auth)

====
